---- MODULE Spec2Model ----
(***************************************************************************)
(* Model of audiobook_generator/core/utils.py: the language-aware text     *)
(* chunker (split_text and its two strategies), the special-character      *)
(* classifier, and the ID3 metadata tagger (set_audio_tags).               *)
(*                                                                         *)
(* Strings are sequences of Unicode codepoints (naturals), so that len,    *)
(* slicing, str.split() and startswith are computed, not assumed.          *)
(***************************************************************************)
EXTENDS Integers, Sequences, FiniteSets, TLC

VARIABLES
    op,          \* which function of utils.py the current call is
    text,        \* argument text of the chunking call
    max_chars,   \* argument max_chars of the chunking call
    language,    \* argument language of split_text (<<>> when not passed)
    chunks,      \* the returned list of chunks
    log,         \* the records given to logger, in order
    char,        \* argument of is_special_char
    is_special,  \* value returned by is_special_char
    files,       \* path -> what the file at that path holds as its ID3 tag
    pc,          \* call -> where that call of set_audio_tags stands
    output_file, \* call -> its argument output_file
    audio_tags,  \* call -> its argument audio_tags
    id3,         \* call -> what ID3(output_file) did for it
    tags,        \* call -> the frames of its local variable tags
    err,         \* call -> the exception raised inside its try block
    raised,      \* call -> the exception set_audio_tags raised to the caller
    before,      \* call -> the files as they were when the call began
    parser       \* the book parser being constructed and used

tagVars == <<files, pc, output_file, audio_tags, id3, tags, err, raised, before>>
vars == <<op, text, max_chars, language, chunks, log, char, is_special,
          files, pc, output_file, audio_tags, id3, tags, err, raised, before,
          parser>>

----------------------------------------------------------------------------
(* Bounds of the model. *)

MaxLen == 5      \* longest input text, in codepoints
MaxChars == 3    \* largest max_chars tried

(* Codepoints the input texts are drawn from: space, newline, "A",
   the ideographic full stop U+3002 and the ideograph U+4F60. *)
Alphabet == {32, 10, 65, 12290, 20320}

RECURSIVE SeqsUpTo(_, _)
SeqsUpTo(S, n) ==
    IF n = 0 THEN {<<>>}
    ELSE LET shorter == SeqsUpTo(S, n - 1)
         IN  shorter \cup {Append(s, c) : s \in {t \in shorter : Len(t) = n - 1}, c \in S}

Texts == SeqsUpTo(Alphabet, MaxLen)

(* Language tags: "zh-CN", "zh", "en", "ezh", "z", "Zh", "". *)
Languages ==
    { <<122, 104, 45, 67, 78>>, <<122, 104>>, <<101, 110>>,
      <<101, 122, 104>>, <<122>>, <<90, 104>>, <<>> }

----------------------------------------------------------------------------
(* Python string primitives used by utils.py. *)

(* Codepoints for which str.isspace() holds: the separators of str.split(). *)
Whitespace ==
    {9, 10, 11, 12, 13, 28, 29, 30, 31, 32, 133, 160, 5760}
        \cup (8192..8202) \cup {8232, 8233, 8239, 8287, 12288}

(* str.split() with no argument: the maximal runs of non-whitespace. *)
RECURSIVE SplitFrom(_, _, _, _)
SplitFrom(s, i, word, acc) ==
    IF i > Len(s)
    THEN IF word = <<>> THEN acc ELSE Append(acc, word)
    ELSE IF s[i] \in Whitespace
         THEN SplitFrom(s, i + 1, <<>>, IF word = <<>> THEN acc ELSE Append(acc, word))
         ELSE SplitFrom(s, i + 1, Append(word, s[i]), acc)

Split(s) == SplitFrom(s, 1, <<>>, <<>>)

(* str.startswith(prefix) *)
StartsWith(s, prefix) ==
    /\ Len(s) >= Len(prefix)
    /\ SubSeq(s, 1, Len(prefix)) = prefix

(* s[:n] *)
Prefix(s, n) == SubSeq(s, 1, IF Len(s) < n THEN Len(s) ELSE n)

NoLanguage == <<-1>>    \* marks a call that takes no language argument

LogRec(level, msg, args) == [level |-> level, msg |-> msg, args |-> args]

----------------------------------------------------------------------------
(* is_special_char *)

(* The string literal special_chars of is_special_char, as codepoints. *)
special_chars ==
    << 12290, 65292, 12289, 65311, 65281, 65306, 65307, 8220, 8221, 8216,
       8217, 65288, 65289, 12298, 12299, 12304, 12305, 8230, 8212, 65374,
       183, 12300, 12301, 12302, 12303, 12296, 12297, 12310, 12311, 12308,
       12309, 8758 >>

(* char in special_chars *)
InString(c, s) == \E k \in 1..Len(s) : s[k] = c

(* is_special_char with the ASCII range starting at the space character. *)
IsSpecialCharLowerBound32(c) == (32 <= c /\ c <= 126) \/ InString(c, special_chars)

IsSpecialChar(c) == (33 <= c /\ c <= 126) \/ InString(c, special_chars)

IsSpecialCharLog(c) == LogRec("debug", "is_special_char>", <<c, c, IsSpecialChar(c)>>)

----------------------------------------------------------------------------
(* split_chinese_text *)

(* The state of the loop: the local variables chunks and current_chunk, and
   the debug records is_special_char has logged so far. *)
LoopInit == [chunks |-> <<>>, current_chunk |-> <<>>, debug |-> <<>>]

(* ChineseStep with the length test off by one (len(current_chunk) <= max_chars). *)
ChineseStepOffByOne(st, c, N) ==
    IF Len(st.current_chunk) <= N \/ IsSpecialChar(c)
    THEN [st EXCEPT !.current_chunk = Append(@, c)]
    ELSE [st EXCEPT !.chunks = Append(@, st.current_chunk), !.current_chunk = <<c>>]

(* ChineseStep that starts the new chunk empty, losing the overflowing character. *)
ChineseStepDropsChar(st, c, N) ==
    IF Len(st.current_chunk) + 1 <= N \/ IsSpecialChar(c)
    THEN [st EXCEPT !.current_chunk = Append(@, c)]
    ELSE [st EXCEPT !.chunks = Append(@, st.current_chunk), !.current_chunk = <<>>]

(* ChineseStep with the length test alone, without is_special_char. *)
ChineseStepLengthOnly(st, c, N) ==
    IF Len(st.current_chunk) + 1 <= N
    THEN [st EXCEPT !.current_chunk = Append(@, c)]
    ELSE [st EXCEPT !.chunks = Append(@, st.current_chunk), !.current_chunk = <<c>>]

(* One iteration of "for char in text".  The right operand of "or" is only
   evaluated, and so only logs, when the length test fails. *)
ChineseStep(st, c, N) ==
    IF Len(st.current_chunk) + 1 <= N
    THEN [st EXCEPT !.current_chunk = Append(@, c)]
    ELSE IF IsSpecialChar(c)
         THEN [st EXCEPT !.current_chunk = Append(@, c),
                         !.debug = Append(@, IsSpecialCharLog(c))]
         ELSE [st EXCEPT !.chunks = Append(@, st.current_chunk),
                         !.current_chunk = <<c>>,
                         !.debug = Append(@, IsSpecialCharLog(c))]

RECURSIVE ChineseLoop(_, _, _, _)
ChineseLoop(st, s, i, N) ==
    IF i > Len(s) THEN st
    ELSE ChineseLoop(ChineseStep(st, s[i], N), s, i + 1, N)

(* FlushTrailing without the "if current_chunk" test. *)
FlushTrailingAlways(st) == Append(st.chunks, st.current_chunk)

(* "if current_chunk: chunks.append(current_chunk)" *)
FlushTrailing(st) ==
    IF st.current_chunk # <<>> THEN Append(st.chunks, st.current_chunk) ELSE st.chunks

SplitChineseText(s, N) == FlushTrailing(ChineseLoop(LoopInit, s, 1, N))

SplitChineseDebug(s, N) == ChineseLoop(LoopInit, s, 1, N).debug

----------------------------------------------------------------------------
(* split_word_based_text *)

(* WordStep that forgets the separating space in the length test. *)
WordStepNoSpaceLength(st, word, N) ==
    IF Len(st.current_chunk) + Len(word) <= N
    THEN [st EXCEPT !.current_chunk =
              @ \o (IF st.current_chunk # <<>> THEN <<32>> ELSE <<>>) \o word]
    ELSE [st EXCEPT !.chunks = Append(@, st.current_chunk), !.current_chunk = word]

(* WordStep with a strict length test (< max_chars), which flushes early. *)
WordStepStrictLimit(st, word, N) ==
    LET space_length == IF st.current_chunk # <<>> THEN 1 ELSE 0
    IN  IF Len(st.current_chunk) + Len(word) + space_length < N
        THEN [st EXCEPT !.current_chunk =
                  @ \o (IF st.current_chunk # <<>> THEN <<32>> ELSE <<>>) \o word]
        ELSE [st EXCEPT !.chunks = Append(@, st.current_chunk),
                        !.current_chunk = word]

(* One iteration of "for word in words". *)
WordStep(st, word, N) ==
    LET space_length == IF st.current_chunk # <<>> THEN 1 ELSE 0
    IN  IF Len(st.current_chunk) + Len(word) + space_length <= N
        THEN [st EXCEPT !.current_chunk =
                  @ \o (IF st.current_chunk # <<>> THEN <<32>> ELSE <<>>) \o word]
        ELSE [st EXCEPT !.chunks = Append(@, st.current_chunk),
                        !.current_chunk = word]

RECURSIVE WordLoop(_, _, _, _)
WordLoop(st, words, i, N) ==
    IF i > Len(words) THEN st
    ELSE WordLoop(WordStep(st, words[i], N), words, i + 1, N)

SplitWordBasedText(s, N) == FlushTrailing(WordLoop(LoopInit, Split(s), 1, N))

----------------------------------------------------------------------------
(* log_chunks and split_text *)

PreviewLen == 50

(* logger.info of the count, then of the first 50 characters of each chunk. *)
LogChunks(cs) ==
    <<LogRec("info", "Split text into chunks", <<Len(cs)>>)>>
        \o [i \in 1..Len(cs) |-> LogRec("info", "Chunk", <<i, Prefix(cs[i], PreviewLen)>>)]

(* "zh" *)
ZhPrefix == <<122, 104>>

(* The selection rule written as a substring test ("zh" in language). *)
UsesChineseStrategyContains(lang) ==
    \E k \in 1..Len(lang) : k + 1 <= Len(lang) /\ SubSeq(lang, k, k + 1) = ZhPrefix

UsesChineseStrategy(lang) == StartsWith(lang, ZhPrefix)

SplitText(s, N, lang) ==
    IF UsesChineseStrategy(lang) THEN SplitChineseText(s, N) ELSE SplitWordBasedText(s, N)

SplitTextLog(s, N, lang) ==
    (IF UsesChineseStrategy(lang) THEN SplitChineseDebug(s, N) ELSE <<>>)
        \o LogChunks(SplitText(s, N, lang))

----------------------------------------------------------------------------
(* The book parser before it is constructed: the configuration given to the
   constructor, the document's metadata, and no instance yet. *)

NoConfig == [input_file |-> <<>>, title_mode |-> "none"]

NoParser ==
    [given |-> NoConfig, metadata |-> [title |-> <<>>, author |-> <<>>],
     instance |-> FALSE, config |-> NoConfig, error |-> "none",
     called |-> "none", result |-> <<>>]

----------------------------------------------------------------------------
(* The ID3 library as utils.py uses it (mutagen.id3). *)

(* Frame ids: the four text frames set_audio_tags writes, and two it never
   touches (genre and comment). *)
TIT2 == "TIT2"
TPE1 == "TPE1"
TALB == "TALB"
TRCK == "TRCK"
FrameIds == {TIT2, TPE1, TALB, TRCK, "TCON", "COMM"}

(* ID3(): a container with no frames. *)
EmptyFrames == [f \in {} |-> <<>>]

(* What a file holds: no ID3 header, or a header with frames. *)
NoHeader == [header |-> FALSE, frames |-> EmptyFrames]
Tagged(frames) == [header |-> TRUE, frames |-> frames]

(* ID3(output_file): the frames of the file, ID3NoHeaderError when the file
   has no header, or another error (file missing, unreadable, corrupt). *)
ID3Load(file, ioFails) ==
    IF ioFails THEN [exc |-> "MutagenError", frames |-> EmptyFrames]
    ELSE IF file.header THEN [exc |-> "none", frames |-> file.frames]
    ELSE [exc |-> "ID3NoHeaderError", frames |-> EmptyFrames]

(* tags.add that extends the text of a frame already present. *)
AddFrameExtends(frames, id, value) ==
    [f \in DOMAIN frames \cup {id} |->
        IF f # id THEN frames[f]
        ELSE IF id \in DOMAIN frames THEN frames[id] \o value ELSE value]

(* tags.add(frame): a text frame replaces the frame of the same id. *)
AddFrame(frames, id, value) ==
    [f \in DOMAIN frames \cup {id} |-> IF f = id THEN value ELSE frames[f]]

(* str(n) for a natural n. *)
RECURSIVE Str(_)
Str(n) == IF n < 10 THEN <<48 + n>> ELSE Str(n \div 10) \o <<48 + (n % 10)>>

----------------------------------------------------------------------------
(* get_or_create_tags, add_audio_tag_fields and the handler of set_audio_tags *)

(* get_or_create_tags that catches every exception of ID3(output_file). *)
GetOrCreateTagsCatchAll(path, loaded) ==
    IF loaded.exc = "none"
    THEN [exc |-> "none", frames |-> loaded.frames,
          debug |-> <<LogRec("debug", "tags:", <<loaded.frames>>)>>]
    ELSE [exc |-> "none", frames |-> EmptyFrames,
          debug |-> <<LogRec("debug", "No ID3 header found. Creating new tags.", <<path>>)>>]

(* The result of get_or_create_tags given what ID3(output_file) did: the
   frames returned or the exception propagated, and the debug record. *)
GetOrCreateTags(path, loaded) ==
    IF loaded.exc = "none"
    THEN [exc |-> "none", frames |-> loaded.frames,
          debug |-> <<LogRec("debug", "tags:", <<loaded.frames>>)>>]
    ELSE IF loaded.exc = "ID3NoHeaderError"
    THEN [exc |-> "none", frames |-> EmptyFrames,
          debug |-> <<LogRec("debug", "No ID3 header found. Creating new tags.", <<path>>)>>]
    ELSE [exc |-> loaded.exc, frames |-> EmptyFrames, debug |-> <<>>]

(* The four frames in the order add_audio_tag_fields adds them. *)
FieldFrames(at) ==
    << <<TIT2, at.title>>, <<TPE1, at.author>>, <<TALB, at.book_title>>,
       <<TRCK, Str(at.idx)>> >>

RECURSIVE AddFirst(_, _, _)
AddFirst(frames, fs, k) ==
    IF k = 0 THEN frames
    ELSE AddFrame(AddFirst(frames, fs, k - 1), fs[k][1], fs[k][2])

(* add_audio_tag_fields that builds a fresh container of the four frames. *)
AddAudioTagFieldsFresh(frames, at) == AddFirst(EmptyFrames, FieldFrames(at), 4)

RECURSIVE AddAbsent(_, _, _)
AddAbsent(frames, fs, k) ==
    IF k = 0 THEN frames
    ELSE LET sofar == AddAbsent(frames, fs, k - 1)
         IN  IF fs[k][1] \in DOMAIN sofar THEN sofar
             ELSE AddFrame(sofar, fs[k][1], fs[k][2])

(* add_audio_tag_fields that leaves a frame already present as it is. *)
AddAudioTagFieldsKeepsPresent(frames, at) == AddAbsent(frames, FieldFrames(at), 4)

(* add_audio_tag_fields: the container after the four tags.add calls. *)
AddAudioTagFields(frames, at) == AddFirst(frames, FieldFrames(at), 4)

(* logger.error(f"Error while setting audio tags: {e}, {output_file}") *)
ErrorLog(e, path) == LogRec("error", "Error while setting audio tags", <<e, path>>)

(* An except clause that logs and returns instead of raising. *)
ReraiseSwallowed(e) == [pc |-> "done", raised |-> "none"]

(* "raise e": the call ends by raising the exception it caught. *)
Reraise(e) == [pc |-> "raised", raised |-> e]

----------------------------------------------------------------------------
(* set_audio_tags, one step at a time. *)

Calls == {1, 2}
Paths == {"a.mp3", "b.mp3"}

MaxIdx == 12     \* largest track index tried

(* Strings "T", "A", "B", "U" and "old", "g", "c", "7". *)
AudioTagSets ==
    { [title |-> <<84>>, author |-> <<65>>, book_title |-> <<66>>, idx |-> 1],
      [title |-> <<85>>, author |-> <<65>>, book_title |-> <<85>>, idx |-> MaxIdx] }

FileStates ==
    { NoHeader,
      Tagged(EmptyFrames),
      Tagged([f \in {"TCON"} |-> <<103>>]),
      Tagged([f \in {TIT2, TRCK, "TCON", "COMM"} |->
                 IF f = TIT2 THEN <<111, 108, 100>>
                 ELSE IF f = TRCK THEN <<55>>
                 ELSE IF f = "TCON" THEN <<103>> ELSE <<99>>]) }

NoAudioTags == [title |-> <<>>, author |-> <<>>, book_title |-> <<>>, idx |-> 0]
NoLoad == [exc |-> "none", frames |-> EmptyFrames]

(* No call of set_audio_tags has begun. *)
NoCalls ==
    /\ pc = [p \in Calls |-> "idle"]
    /\ output_file = [p \in Calls |-> ""]
    /\ audio_tags = [p \in Calls |-> NoAudioTags]
    /\ id3 = [p \in Calls |-> NoLoad]
    /\ tags = [p \in Calls |-> EmptyFrames]
    /\ err = [p \in Calls |-> "none"]
    /\ raised = [p \in Calls |-> "none"]

NoTagging ==
    /\ files = [f \in Paths |-> NoHeader]
    /\ before = [p \in Calls |-> files]
    /\ NoCalls

InitTag ==
    /\ files \in [Paths -> FileStates]
    /\ before = [p \in Calls |-> files]
    /\ NoCalls
    /\ op = "set_audio_tags"
    /\ text = <<>>
    /\ max_chars = 1
    /\ language = NoLanguage
    /\ chunks = <<>>
    /\ log = <<>>
    /\ char = -1
    /\ is_special = FALSE
    /\ parser = NoParser

chunkerVars == <<op, text, max_chars, language, chunks, char, is_special>>

(* The caller calls set_audio_tags(path, at). *)
Begin(p, path, at) ==
    /\ pc[p] = "idle"
    /\ pc' = [pc EXCEPT ![p] = "read"]
    /\ output_file' = [output_file EXCEPT ![p] = path]
    /\ audio_tags' = [audio_tags EXCEPT ![p] = at]
    /\ before' = [before EXCEPT ![p] = files]
    /\ UNCHANGED <<files, id3, tags, err, raised, log>>
    /\ UNCHANGED chunkerVars
    /\ UNCHANGED parser

(* tags = get_or_create_tags(output_file) *)
ReadTags(p) ==
    /\ pc[p] = "read"
    /\ \E ioFails \in BOOLEAN :
        LET loaded == ID3Load(files[output_file[p]], ioFails)
            got == GetOrCreateTags(output_file[p], loaded)
        IN  /\ id3' = [id3 EXCEPT ![p] = loaded]
            /\ log' = log \o got.debug
            /\ IF got.exc = "none"
               THEN /\ tags' = [tags EXCEPT ![p] = got.frames]
                    /\ pc' = [pc EXCEPT ![p] = "add"]
                    /\ UNCHANGED err
               ELSE /\ err' = [err EXCEPT ![p] = got.exc]
                    /\ pc' = [pc EXCEPT ![p] = "failed"]
                    /\ UNCHANGED tags
    /\ UNCHANGED <<files, output_file, audio_tags, raised, before>>
    /\ UNCHANGED chunkerVars
    /\ UNCHANGED parser

(* add_audio_tag_fields(tags, audio_tags), all four adds. *)
AddFields(p) ==
    /\ pc[p] = "add"
    /\ tags' = [tags EXCEPT ![p] = AddAudioTagFields(tags[p], audio_tags[p])]
    /\ pc' = [pc EXCEPT ![p] = "save"]
    /\ UNCHANGED <<files, output_file, audio_tags, id3, err, raised, before, log>>
    /\ UNCHANGED chunkerVars
    /\ UNCHANGED parser

(* add_audio_tag_fields that saves the file after each add, then raises. *)
AddFieldsFailSavedEachAdd(p) ==
    /\ pc[p] = "add"
    /\ \E k \in 1..4 :
        /\ tags' = [tags EXCEPT ![p] = AddFirst(tags[p], FieldFrames(audio_tags[p]), k - 1)]
        /\ files' = IF k = 1 THEN files
                    ELSE [files EXCEPT ![output_file[p]] = Tagged(tags'[p])]
    /\ err' = [err EXCEPT ![p] = "AttributeError"]
    /\ pc' = [pc EXCEPT ![p] = "failed"]
    /\ UNCHANGED <<output_file, audio_tags, id3, raised, before, log>>
    /\ UNCHANGED chunkerVars
    /\ UNCHANGED parser

(* add_audio_tag_fields raising at its k-th statement (a frame constructor
   or an attribute of audio_tags fails), after k - 1 adds. *)
AddFieldsFail(p) ==
    /\ pc[p] = "add"
    /\ \E k \in 1..4 :
        tags' = [tags EXCEPT ![p] = AddFirst(tags[p], FieldFrames(audio_tags[p]), k - 1)]
    /\ err' = [err EXCEPT ![p] = "AttributeError"]
    /\ pc' = [pc EXCEPT ![p] = "failed"]
    /\ UNCHANGED <<files, output_file, audio_tags, id3, raised, before, log>>
    /\ UNCHANGED chunkerVars
    /\ UNCHANGED parser

(* tags.save(output_file) *)
SaveTags(p) ==
    /\ pc[p] = "save"
    /\ files' = [files EXCEPT ![output_file[p]] = Tagged(tags[p])]
    /\ pc' = [pc EXCEPT ![p] = "done"]
    /\ UNCHANGED <<output_file, audio_tags, id3, tags, err, raised, before, log>>
    /\ UNCHANGED chunkerVars
    /\ UNCHANGED parser

(* tags.save(output_file) raising; the file is left as it was. *)
SaveTagsFail(p) ==
    /\ pc[p] = "save"
    /\ err' = [err EXCEPT ![p] = "OSError"]
    /\ pc' = [pc EXCEPT ![p] = "failed"]
    /\ UNCHANGED <<files, output_file, audio_tags, id3, tags, raised, before, log>>
    /\ UNCHANGED chunkerVars
    /\ UNCHANGED parser

(* except Exception as e: logger.error(...) *)
LogError(p) ==
    /\ pc[p] = "failed"
    /\ log' = Append(log, ErrorLog(err[p], output_file[p]))
    /\ pc' = [pc EXCEPT ![p] = "logged"]
    /\ UNCHANGED <<files, output_file, audio_tags, id3, tags, err, raised, before>>
    /\ UNCHANGED chunkerVars
    /\ UNCHANGED parser

(* raise e *)
RaiseError(p) ==
    /\ pc[p] = "logged"
    /\ pc' = [pc EXCEPT ![p] = Reraise(err[p]).pc]
    /\ raised' = [raised EXCEPT ![p] = Reraise(err[p]).raised]
    /\ UNCHANGED <<files, output_file, audio_tags, id3, tags, err, before, log>>
    /\ UNCHANGED chunkerVars
    /\ UNCHANGED parser

Step(p) ==
    \/ ReadTags(p)
    \/ AddFields(p)
    \/ AddFieldsFail(p)
    \/ SaveTags(p)
    \/ SaveTagsFail(p)
    \/ LogError(p)
    \/ RaiseError(p)

Finished(p) == pc[p] \in {"done", "raised"}

(* Calls made one after the other, as the caller contract requires: call p
   begins when every earlier call has returned or raised. *)
BeginSerial(p) ==
    /\ \A q \in Calls : IF q < p THEN Finished(q) ELSE pc[q] = "idle"
    /\ \E path \in Paths, at \in AudioTagSets : Begin(p, path, at)

NextTag == \E p \in Calls : BeginSerial(p) \/ Step(p)

SpecTag == InitTag /\ [][NextTag]_vars

(* Calls that overlap: a call may begin whatever the other call is doing,
   and the steps of the two calls interleave, each step atomic. *)
BeginOverlapping(p) ==
    \E path \in Paths, at \in AudioTagSets : Begin(p, path, at)

NextOverlap == \E p \in Calls : BeginOverlapping(p) \/ Step(p)

SpecOverlap == InitTag /\ [][NextOverlap]_vars

----------------------------------------------------------------------------
(* Properties of set_audio_tags, for calls made one after the other. *)

(* No call after p has begun, so the files are as call p left them. *)
IsLatestCall(p) == \A q \in Calls : q > p => pc[q] = "idle"

RECURSIVE DecimalValue(_)
DecimalValue(s) ==
    IF s = <<>> THEN 0 ELSE 10 * DecimalValue(SubSeq(s, 1, Len(s) - 1)) + (s[Len(s)] - 48)

(* s is the decimal numeral of n: digits only, no leading zero. *)
IsDecimalOf(s, n) ==
    /\ Len(s) >= 1
    /\ \A k \in 1..Len(s) : s[k] \in 48..57
    /\ Len(s) > 1 => s[1] # 48
    /\ DecimalValue(s) = n

WrittenFrames == {"TIT2", "TPE1", "TALB", "TRCK"}

(* C5: after set_audio_tags(output_file, audio_tags) completes without
   error, the container persisted in output_file is the one the file held
   before the call (an empty one when it had none) with exactly title,
   author, album and track overwritten by audio_tags.title, .author,
   .book_title and the string form of .idx; every other field, and every
   other file, is unchanged. *)
C5_TagsWrittenOthersKept ==
    \A p \in Calls :
        (pc[p] = "done" /\ IsLatestCall(p)) =>
            LET old == before[p][output_file[p]]
                new == files[output_file[p]]
                at == audio_tags[p]
            IN  /\ new.header
                /\ DOMAIN new.frames = DOMAIN old.frames \cup WrittenFrames
                /\ new.frames["TIT2"] = at.title
                /\ new.frames["TPE1"] = at.author
                /\ new.frames["TALB"] = at.book_title
                /\ IsDecimalOf(new.frames["TRCK"], at.idx)
                /\ \A f \in DOMAIN old.frames \ WrittenFrames : new.frames[f] = old.frames[f]
                /\ \A other \in Paths \ {output_file[p]} : files[other] = before[p][other]

C5_Witness ==
    \E p \in Calls :
        /\ pc[p] = "done"
        /\ IsLatestCall(p)
        /\ audio_tags[p].idx = MaxIdx
        /\ DOMAIN before[p][output_file[p]].frames = {"TIT2", "TRCK", "TCON", "COMM"}
        /\ files[output_file[p]].frames["TIT2"] # before[p][output_file[p]].frames["TIT2"]
        /\ files[output_file[p]].frames["COMM"] = <<99>>

IsErrorRecord(r, e, path) == r.level = "error" /\ r.args = <<e, path>>

(* C6: if a step of set_audio_tags raises, set_audio_tags first logs an
   error record that holds the output file path and then raises that same
   error; it never returns normally after a failed step. *)
C6_FailureLoggedThenRaised ==
    /\ \A p \in Calls :
        /\ pc[p] = "done" => err[p] = "none"
        /\ pc[p] = "raised" =>
            /\ err[p] # "none"
            /\ raised[p] = err[p]
            /\ \E i \in 1..Len(log) : IsErrorRecord(log[i], err[p], output_file[p])
        /\ pc[p] \in {"failed", "logged"} => err[p] # "none"
    /\ Cardinality({i \in 1..Len(log) : log[i].level = "error"})
           = Cardinality({p \in Calls : err[p] # "none" /\ pc[p] # "failed"})

C6_Witness ==
    /\ pc[1] = "raised" /\ raised[1] = "MutagenError" /\ output_file[1] = "a.mp3"
    /\ pc[2] = "raised" /\ raised[2] = "OSError" /\ output_file[2] = "b.mp3"
    /\ \E i \in 1..Len(log) : IsErrorRecord(log[i], "OSError", "b.mp3")

(* C7: get_or_create_tags returns the existing container when ID3 reads
   one, returns a new empty container only when the read fails because the
   file has no ID3 header, and lets every other read failure propagate
   instead of creating a container. *)
C7_OnlyMissingHeaderCreates ==
    \A p \in Calls :
        LET file == before[p][output_file[p]]
        IN  /\ pc[p] = "add" =>
                /\ id3[p].exc \in {"none", "ID3NoHeaderError"}
                /\ id3[p].exc = "none" => (file.header /\ tags[p] = file.frames)
                /\ id3[p].exc = "ID3NoHeaderError" => (~file.header /\ tags[p] = EmptyFrames)
            /\ (pc[p] \notin {"idle", "read"} /\ id3[p].exc \notin {"none", "ID3NoHeaderError"}) =>
                /\ pc[p] \in {"failed", "logged", "raised"}
                /\ err[p] = id3[p].exc

C7_Witness ==
    /\ pc[1] = "raised" /\ id3[1].exc = "MutagenError" /\ raised[1] = "MutagenError"
    /\ pc[2] = "add" /\ id3[2].exc = "ID3NoHeaderError" /\ tags[2] = EmptyFrames

(* C14: set_audio_tags is idempotent: a second call with the same output
   file and the same tags, right after the first, leaves the persisted
   container as the first call left it. *)
C14_SecondCallChangesNothing ==
    ( /\ pc[1] = "done" /\ pc[2] = "done"
      /\ output_file[1] = output_file[2]
      /\ audio_tags[1] = audio_tags[2] )
        => files = before[2]

C14_Witness ==
    /\ pc[1] = "done" /\ pc[2] = "done"
    /\ output_file[1] = "a.mp3" /\ output_file[2] = "a.mp3"
    /\ audio_tags[1] = audio_tags[2]
    /\ audio_tags[2].idx = MaxIdx
    /\ before[1]["a.mp3"] # before[2]["a.mp3"]
    /\ "COMM" \in DOMAIN files["a.mp3"].frames

(* C16: when set_audio_tags fails while reading or creating the container
   or while setting the fields, the save step is never executed, so the
   files hold after the failed call what they held before it. *)
C16_FailureBeforeSaveKeepsFile ==
    \A p \in Calls :
        ( /\ pc[p] \in {"failed", "logged", "raised"}
          /\ err[p] \in {"MutagenError", "AttributeError"}
          /\ IsLatestCall(p) )
            => files = before[p]

C16_Witness ==
    /\ pc[1] = "done"
    /\ pc[2] = "raised"
    /\ err[2] = "AttributeError"
    /\ output_file[1] = output_file[2]
    /\ audio_tags[1] # audio_tags[2]
    /\ tags[2] # before[2][output_file[2]].frames
    /\ files = before[2]

----------------------------------------------------------------------------
(* Properties of set_audio_tags for two overlapping calls. *)

(* The four written frames of container c are those of tag set at. *)
HoldsFieldsOf(c, at) ==
    /\ WrittenFrames \subseteq DOMAIN c
    /\ c["TIT2"] = at.title
    /\ c["TPE1"] = at.author
    /\ c["TALB"] = at.book_title
    /\ IsDecimalOf(c["TRCK"], at.idx)

(* Container c has the unrelated frames of file content old, and no others. *)
KeepsUnrelatedOf(c, old) ==
    /\ DOMAIN c \ WrittenFrames = DOMAIN old.frames \ WrittenFrames
    /\ \A f \in DOMAIN old.frames \ WrittenFrames : c[f] = old.frames[f]

(* C17: for two set_audio_tags calls on the same path whose read, set-fields
   and save steps interleave arbitrarily, the container finally persisted is
   that of a serial execution: its four fields all come from one call that
   completed (or the file is untouched when none did), and every unrelated
   field is preserved. *)
C17_OverlapIsSerializable ==
    ( /\ \A p \in Calls : Finished(p)
      /\ output_file[1] = output_file[2] )
        => LET path == output_file[1]
               new == files[path]
               completed == {p \in Calls : pc[p] = "done"}
           IN  /\ \A p \in Calls : \A other \in Paths \ {path} :
                      files[other] = before[p][other]
               /\ IF completed = {}
                  THEN \A p \in Calls : new = before[p][path]
                  ELSE /\ new.header
                       /\ \E p \in completed : HoldsFieldsOf(new.frames, audio_tags[p])
                       /\ \A p \in Calls : KeepsUnrelatedOf(new.frames, before[p][path])

C17_Witness ==
    /\ pc[1] = "done" /\ pc[2] = "done"
    /\ output_file[1] = "a.mp3" /\ output_file[2] = "a.mp3"
    /\ audio_tags[1] # audio_tags[2]
    /\ before[1] = before[2]
    /\ id3[1] = id3[2]
    /\ id3[1].exc = "none"
    /\ "COMM" \in DOMAIN id3[1].frames
    /\ HoldsFieldsOf(files["a.mp3"].frames, audio_tags[1])

----------------------------------------------------------------------------
(* The book parser (EpubBookParser): construction validates the configuration;
   the other methods exist only on a constructed instance. *)

(* ".epub" without the dot: the extension the variant supports. *)
SupportedExtension == <<101, 112, 117, 98>>

(* The text after the last "." of a file name; the empty string when the
   name has no ".". *)
RECURSIVE ExtensionFrom(_, _)
ExtensionFrom(name, i) ==
    IF i = 0 THEN <<>>
    ELSE IF name[i] = 46 THEN SubSeq(name, i + 1, Len(name))
    ELSE ExtensionFrom(name, i - 1)

Extension(name) == ExtensionFrom(name, Len(name))

(* validate_config: "none", or the error it raises. *)
ValidateConfig(config) ==
    IF Extension(config.input_file) = SupportedExtension THEN "none" ELSE "ValueError"

(* File names "test.epub", "invalid.txt", "test.txt", "test.epub.txt",
   "a.b.epub", "epub", "book.pdf" and "". *)
InputFiles ==
    { <<116, 101, 115, 116, 46, 101, 112, 117, 98>>,
      <<105, 110, 118, 97, 108, 105, 100, 46, 116, 120, 116>>,
      <<116, 101, 115, 116, 46, 116, 120, 116>>,
      <<116, 101, 115, 116, 46, 101, 112, 117, 98, 46, 116, 120, 116>>,
      <<97, 46, 98, 46, 101, 112, 117, 98>>,
      <<101, 112, 117, 98>>,
      <<98, 111, 111, 107, 46, 112, 100, 102>>,
      <<>> }

TitleModes == {"auto", "tag_text", "first_few"}

Configs == [input_file : InputFiles, title_mode : TitleModes]

(* Document metadata: the title and the author, <<>> when absent. *)
Metadata == [title : {<<>>, <<84>>}, author : {<<>>, <<65>>}]

Untitled == <<85, 110, 116, 105, 116, 108, 101, 100>>
Unknown == <<85, 110, 107, 110, 111, 119, 110>>

ParserMethods ==
    {"get_book_title", "get_book_author", "get_chapters", "get_search_and_replaces"}

(* A constructor that stores the configuration and leaves validation to the
   first use of the instance. *)
ConstructedDeferred(p) ==
    [p EXCEPT !.instance = TRUE, !.config = p.given]

(* The outcome of the constructor: it stores the configuration and runs
   validate_config; when that raises, the caller gets no instance. *)
Constructed(p) ==
    LET e == ValidateConfig(p.given)
    IN  IF e = "none"
        THEN [p EXCEPT !.instance = TRUE, !.config = p.given]
        ELSE [p EXCEPT !.error = e]

(* What a method returns; the chapters and the rules read are not tracked. *)
MethodResult(p, m) ==
    IF m = "get_book_title"
    THEN IF p.metadata.title # <<>> THEN p.metadata.title ELSE Untitled
    ELSE IF m = "get_book_author"
    THEN IF p.metadata.author # <<>> THEN p.metadata.author ELSE Unknown
    ELSE <<>>

InitParser ==
    /\ parser \in {[NoParser EXCEPT !.given = c, !.metadata = md] :
                        c \in Configs, md \in Metadata}
    /\ op = "book_parser"
    /\ text = <<>>
    /\ max_chars = 1
    /\ language = NoLanguage
    /\ chunks = <<>>
    /\ log = <<>>
    /\ char = -1
    /\ is_special = FALSE
    /\ NoTagging

(* parser = EpubBookParser(config) *)
ConstructParser ==
    /\ ~parser.instance
    /\ parser.error = "none"
    /\ parser' = Constructed(parser)
    /\ UNCHANGED chunkerVars
    /\ UNCHANGED tagVars
    /\ UNCHANGED log

(* parser.<method>(...), on an instance the constructor returned. *)
CallParserMethod ==
    /\ parser.instance
    /\ parser.called = "none"
    /\ \E m \in ParserMethods :
        parser' = [parser EXCEPT !.called = m, !.result = MethodResult(parser, m)]
    /\ UNCHANGED chunkerVars
    /\ UNCHANGED tagVars
    /\ UNCHANGED log

NextParser == ConstructParser \/ CallParserMethod

SpecParser == InitParser /\ [][NextParser]_vars

(* The file name ends in ".epub". *)
EndsInDotEpub(name) ==
    /\ Len(name) >= 5
    /\ SubSeq(name, Len(name) - 4, Len(name)) = <<46, 101, 112, 117, 98>>

(* C11: constructing a book parser for an input file whose extension is not
   supported fails at construction, so no instance exists on which a method
   could be called; with a supported extension construction succeeds and
   the instance keeps the given configuration. *)
C11_ValidationAtConstruction ==
    /\ parser.instance =>
        /\ EndsInDotEpub(parser.given.input_file)
        /\ parser.config = parser.given
        /\ parser.error = "none"
    /\ parser.error # "none" =>
        /\ ~EndsInDotEpub(parser.given.input_file)
        /\ ~parser.instance
        /\ parser.called = "none"
    /\ parser.called # "none" => EndsInDotEpub(parser.given.input_file)
    /\ (op = "book_parser" /\ ~parser.instance /\ parser.error = "none") =>
        /\ parser.called = "none"
        /\ ENABLED ConstructParser

C11_Witness ==
    /\ parser.given.input_file = <<105, 110, 118, 97, 108, 105, 100, 46, 116, 120, 116>>
    /\ parser.error = "ValueError"
    /\ ~parser.instance
    /\ parser.called = "none"

----------------------------------------------------------------------------
(* The chunker called on every bounded input. *)

InitChunk ==
    /\ op = "none"
    /\ text \in Texts
    /\ max_chars \in 1..MaxChars
    /\ language = NoLanguage
    /\ chunks = <<>>
    /\ log = <<>>
    /\ char = -1
    /\ is_special = FALSE
    /\ NoTagging
    /\ parser = NoParser

CallSplitChineseText ==
    /\ op = "none"
    /\ op' = "split_chinese_text"
    /\ chunks' = SplitChineseText(text, max_chars)
    /\ log' = log \o SplitChineseDebug(text, max_chars)
    /\ UNCHANGED <<text, max_chars, language, char, is_special>>
    /\ UNCHANGED tagVars
    /\ UNCHANGED parser

CallSplitWordBasedText ==
    /\ op = "none"
    /\ op' = "split_word_based_text"
    /\ chunks' = SplitWordBasedText(text, max_chars)
    /\ UNCHANGED <<text, max_chars, language, log, char, is_special>>
    /\ UNCHANGED tagVars
    /\ UNCHANGED parser

CallSplitText ==
    /\ op = "none"
    /\ \E lang \in Languages :
        /\ op' = "split_text"
        /\ language' = lang
        /\ chunks' = SplitText(text, max_chars, lang)
        /\ log' = log \o SplitTextLog(text, max_chars, lang)
    /\ UNCHANGED <<text, max_chars, char, is_special>>
    /\ UNCHANGED tagVars
    /\ UNCHANGED parser

NextChunk == CallSplitChineseText \/ CallSplitWordBasedText \/ CallSplitText

SpecChunk == InitChunk /\ [][NextChunk]_vars

----------------------------------------------------------------------------
(* is_special_char called on every codepoint of a bounded universe. *)

MaxCodePoint == 130

(* The codepoints probed: 0..MaxCodePoint, the allow-list, and some
   neighbours of it (ideographs, the ideographic space, full-width forms). *)
CodePoints ==
    (0..MaxCodePoint) \cup {special_chars[k] : k \in 1..Len(special_chars)}
        \cup {160, 182, 184, 8211, 8213, 8231, 8757, 8759, 12288, 12291, 12295,
              12312, 20320, 22909, 65280, 65282, 65293, 65373, 65375}

InitChar ==
    /\ op = "none"
    /\ char \in CodePoints
    /\ is_special = FALSE
    /\ text = <<>>
    /\ max_chars = 1
    /\ language = NoLanguage
    /\ chunks = <<>>
    /\ log = <<>>
    /\ NoTagging
    /\ parser = NoParser

CallIsSpecialChar ==
    /\ op = "none"
    /\ op' = "is_special_char"
    /\ is_special' = IsSpecialChar(char)
    /\ log' = Append(log, IsSpecialCharLog(char))
    /\ UNCHANGED <<text, max_chars, language, chunks, char>>
    /\ UNCHANGED tagVars
    /\ UNCHANGED parser

NextChar == CallIsSpecialChar

SpecChar == InitChar /\ [][NextChar]_vars

----------------------------------------------------------------------------
(* Properties of the chunker. *)

RECURSIVE Concat(_)
Concat(cs) == IF cs = <<>> THEN <<>> ELSE Head(cs) \o Concat(Tail(cs))

RECURSIVE JoinWithSpace(_)
JoinWithSpace(cs) ==
    IF cs = <<>> THEN <<>>
    ELSE IF Len(cs) = 1 THEN cs[1]
    ELSE cs[1] \o <<32>> \o JoinWithSpace(Tail(cs))

HasWhitespace(s) == \E k \in 1..Len(s) : s[k] \in Whitespace

(* C1: every chunk returned by split_word_based_text(text, N) has length
   <= N, except chunks that consist of exactly one whitespace-delimited
   token whose own length is greater than N. *)
C1_WordChunksWithinLimit ==
    op = "split_word_based_text" =>
        \A i \in 1..Len(chunks) :
            \/ Len(chunks[i]) <= max_chars
            \/ /\ ~HasWhitespace(chunks[i])
               /\ \E j \in 1..Len(Split(text)) : Split(text)[j] = chunks[i]

C1_Witness ==
    /\ op = "split_word_based_text"
    /\ \E i, j \in 1..Len(chunks) :
        /\ Len(chunks[i]) > max_chars
        /\ i # j
        /\ chunks[j] # <<>>
        /\ Len(chunks[j]) <= max_chars

(* C2: in any chunk returned by split_chinese_text(text, N) that is longer
   than N, every character after the first N satisfies is_special_char. *)
C2_ChineseOverflowIsSpecial ==
    op = "split_chinese_text" =>
        \A i \in 1..Len(chunks) :
            \A k \in (max_chars + 1)..Len(chunks[i]) : IsSpecialChar(chunks[i][k])

C2_Witness ==
    /\ op = "split_chinese_text"
    /\ Len(chunks) >= 2
    /\ \E i \in 1..Len(chunks) : Len(chunks[i]) > max_chars + 1

(* C3: concatenating the chunks returned by split_chinese_text, in order and
   with no separator, reproduces the input text exactly. *)
C3_ChineseRoundTrip ==
    op = "split_chinese_text" => Concat(chunks) = text

C3_Witness ==
    /\ op = "split_chinese_text"
    /\ Len(chunks) >= 3
    /\ Concat(chunks) = text

(* C4: joining the chunks returned by split_word_based_text with single
   spaces gives the input's whitespace-delimited tokens, in order, joined by
   single spaces. *)
C4_WordRoundTrip ==
    op = "split_word_based_text" => JoinWithSpace(chunks) = JoinWithSpace(Split(text))

(* C8: split_text returns the result of split_chinese_text when the language
   tag begins with "zh" and the result of split_word_based_text otherwise;
   what it logs is the count and previews of exactly the chunks returned. *)
C8_SplitTextSelectsStrategy ==
    op = "split_text" =>
        /\ chunks = IF Len(language) >= 2 /\ language[1] = 122 /\ language[2] = 104
                    THEN SplitChineseText(text, max_chars)
                    ELSE SplitWordBasedText(text, max_chars)
        /\ Len(log) >= Len(chunks) + 1
        /\ LET info == SubSeq(log, Len(log) - Len(chunks), Len(log))
           IN  /\ info[1].level = "info" /\ info[1].args = <<Len(chunks)>>
               /\ \A i \in 1..Len(chunks) :
                      /\ info[i + 1].level = "info"
                      /\ info[i + 1].args = <<i, Prefix(chunks[i], PreviewLen)>>

C8_Witness ==
    /\ op = "split_text"
    /\ language = <<122, 104, 45, 67, 78>>
    /\ SplitChineseText(text, max_chars) # SplitWordBasedText(text, max_chars)
    /\ chunks = SplitChineseText(text, max_chars)
    /\ Len(chunks) >= 2

(* C9: empty input to split_chinese_text, split_word_based_text and
   split_text (any language) yields the empty sequence, not a sequence
   holding an empty string. *)
C9_EmptyInputEmptyOutput ==
    (text = <<>> /\ op \in {"split_chinese_text", "split_word_based_text", "split_text"})
        => chunks = <<>>

C9_Witness ==
    /\ text = <<>>
    /\ op = "split_text"
    /\ language = <<122, 104>>
    /\ max_chars = MaxChars
    /\ chunks = <<>>

(* C12: chunks are maximal.  In the output of split_word_based_text, for
   every chunk but the last, the chunk's length plus one separating space
   plus the length of the first word of the next chunk exceeds max_chars;
   in the output of split_chinese_text, every chunk but the last has length
   >= max_chars. *)
C12_ChunksAreMaximal ==
    /\ op = "split_word_based_text" =>
        \A i \in 1..(Len(chunks) - 1) :
            /\ Split(chunks[i + 1]) # <<>>
            /\ Len(chunks[i]) + 1 + Len(Split(chunks[i + 1])[1]) > max_chars
    /\ op = "split_chinese_text" =>
        \A i \in 1..(Len(chunks) - 1) : Len(chunks[i]) >= max_chars

C12_Witness ==
    /\ op = "split_word_based_text"
    /\ Len(chunks) >= 2
    /\ HasWhitespace(chunks[1])
    /\ Len(chunks[1]) = max_chars

(* C13: in the output of split_chinese_text no chunk other than the first
   begins with a special character. *)
C13_NoChunkStartsSpecial ==
    op = "split_chinese_text" =>
        \A i \in 2..Len(chunks) : chunks[i] # <<>> /\ ~IsSpecialChar(chunks[i][1])

C13_Witness ==
    /\ op = "split_chinese_text"
    /\ Len(chunks) >= 2
    /\ IsSpecialChar(chunks[1][1])
    /\ \E i \in 2..Len(chunks) :
        /\ Len(chunks[i]) > max_chars
        /\ IsSpecialChar(chunks[i][Len(chunks[i])])

(* C15: no chunk returned by split_word_based_text or split_chinese_text is
   the empty string, also when the first word is longer than max_chars. *)
C15_NoEmptyChunk ==
    op \in {"split_word_based_text", "split_chinese_text"} =>
        \A i \in 1..Len(chunks) : chunks[i] # <<>>

----------------------------------------------------------------------------
(* Properties of is_special_char. *)

(* The CJK punctuation of the allow-list, by codepoint:
   U+00B7, U+2014, U+2018, U+2019, U+201C, U+201D, U+2026, U+2236,
   U+3001, U+3002, U+3008..U+3011, U+3014..U+3017,
   U+FF01, U+FF08, U+FF09, U+FF0C, U+FF1A, U+FF1B, U+FF1F, U+FF5E. *)
CJKPunctuation ==
    {183, 8212, 8216, 8217, 8220, 8221, 8230, 8758, 12289, 12290}
        \cup (12296..12305) \cup (12308..12311)
        \cup {65281, 65288, 65289, 65292, 65306, 65307, 65311, 65374}

(* C10: is_special_char(c) is true for every codepoint in [33,126] and for
   every character of the CJK punctuation allow-list, and false for every
   other character, in particular for U+4F60 and for the space (32). *)
C10_IsSpecialCharClassifies ==
    op = "is_special_char" =>
        /\ is_special = (char \in 33..126 \/ char \in CJKPunctuation)
        /\ char \in {32, 20320} => ~is_special

C10_Witness ==
    /\ op = "is_special_char"
    /\ char = 20320
    /\ ~is_special

====
